---- MODULE Spec2Model ----
(***************************************************************************)
(* Model of src/app.py: the three transcription adapters                   *)
(* (transcribe_deepgram, transcribe_whisper, transcribe_assemblyai) and    *)
(* the orchestrator transcribe_all_in_parallel that runs them in a thread  *)
(* pool.  Several orchestration calls (one per Streamlit session) run in   *)
(* the same process and share its working directory, hence the two         *)
(* fixed-name temporary files.                                             *)
(*                                                                         *)
(* A Python str / bytes value is a sequence; a character is a one-letter   *)
(* string, a byte a small natural number.                                  *)
(***************************************************************************)
EXTENDS Naturals, Sequences, FiniteSets, TLC

\* ------------------------------------------------------------------ bounds
\* longest text a backend puts into a response
MaxTextLen == 2
\* number of poll requests after which the model stops following the loop
MaxPolls == 3

\* ------------------------------------------------------------------ values
Runs == {1, 2}

\* positional order of the tuple transcribe_all_in_parallel returns (line 231)
Adapters == <<"Deepgram", "Whisper", "AssemblyAI">>
AdapterSet == {Adapters[i] : i \in 1..Len(Adapters)}

\* the audio buffer each orchestration call is given: independent buffers
AudioOf == [r \in Runs |-> IF r = 1 THEN <<1, 1>> ELSE <<2>>]

Chars == {" ", "a"}
SeqsUpTo(S, n) == UNION {[1..k -> S] : k \in 0..n}
Texts == SeqsUpTo(Chars, MaxTextLen)

\* literals returned by the adapters, each one a non-empty str
MissingDeepgramKey == <<"Missing Deepgram API key.">>
MissingOpenAIKey == <<"Missing OpenAI API key.">>
MissingAssemblyAIKey == <<"Missing AssemblyAI API key.">>
UploadInvalid == <<"AssemblyAI upload response invalid.">>

\* upstream error messages of a poll response with status "error"
ErrorMsgs == {<<"bad audio">>}

\* the two temporary files, by the fixed names the code gives them
WhisperTemp == "temp_whisper.wav"
AssemblyTemp == "temp_assembly.wav"
FileNames == {WhisperTemp, AssemblyTemp}
NoFile == [exists |-> FALSE, data |-> <<>>]

\* the values main requires of st.secrets (lines 26-33, AWS_DEFAULT_REGION
\* has a default and is not required)
ConfigNames ==
    {"DEEPGRAM_API_KEY", "OPENAI_API_KEY", "ASSEMBLYAI_API_KEY", "DATABASE_URL",
     "AWS_ACCESS_KEY_ID", "AWS_SECRET_ACCESS_KEY", "AWS_S3_BUCKET_NAME"}

\* "set": a non-empty value; "empty": the key is there with an empty value;
\* "absent": st.secrets has no such key
SecretStates == {"set", "empty", "absent"}

KeyOf ==
    [a \in AdapterSet |->
        CASE a = "Deepgram" -> "DEEPGRAM_API_KEY"
          [] a = "Whisper" -> "OPENAI_API_KEY"
          [] OTHER -> "ASSEMBLYAI_API_KEY"]

\* two of the entries of DEPARTMENTS
Departments == {"Cardiology", "Pulmonology"}

\* the value of uuid.uuid4() in the one upload of a session, and the object URL
\* built from it (lines 75-81)
Uuids == {"id1"}
ObjectKey(u) == <<"audio_uploads/", u, ".wav">>
AudioUrl(u) == <<"https://bucket.s3.amazonaws.com/">> \o ObjectKey(u)

\* what main writes in a tab for an empty text (lines 391-395)
NoTranscript == <<"_No transcript_">>

\* the page messages of main and of the Streamlit runtime
MsgKeyError == "KeyError"
MsgMissingKeys == "Missing keys for: ..."
MsgMissingDb == "Missing DATABASE_URL."
MsgMissingAws == "Missing AWS S3 credentials or bucket name."
MsgNoAudio == "No audio recorded. Click the microphone to record."
MsgS3Error == "S3 upload error: ..."
MsgException == "uncaught exception"
MsgCompleted == "Transcription completed!"
MsgAllEmpty == "All transcripts empty. Cannot save."
MsgPgError == "Error saving transcript to PostgreSQL: ..."
MsgSaved == "Record saved to PostgreSQL!"

\* ------------------------------------------------------------------ str.strip
IsSpace(c) == c = " "

RECURSIVE LStrip(_)
LStrip(s) ==
    IF s # <<>> /\ IsSpace(Head(s)) THEN LStrip(Tail(s)) ELSE s

RECURSIVE RStrip(_)
RStrip(s) ==
    IF s # <<>> /\ IsSpace(s[Len(s)]) THEN RStrip(SubSeq(s, 1, Len(s) - 1)) ELSE s

\* str.strip()
Strip(s) == RStrip(LStrip(s))

\* ------------------------------------------------------------------ files
\* open(name, "wb"): creates the file or truncates it
Truncated == [exists |-> TRUE, data |-> <<>>]

\* f.write(bytes) through a descriptor positioned at offset 0, then close:
\* the bytes replace the first Len(bytes) bytes of whatever the file holds
WriteAt0(file, bytes) ==
    [exists |-> TRUE,
     data |-> bytes \o SubSeq(file.data, Len(bytes) + 1, Len(file.data))]

\* ------------------------------------------------------------------ state
VARIABLES
    missing,  \* the adapters whose API key is empty (a subset of AdapterSet)
    files,    \* [FileNames -> file]: the working directory's temporary files
    opc,      \* [Runs -> position of the call of transcribe_all_in_parallel]
    got,      \* [Runs -> texts fetched so far: deepgram_text, whisper_text, ...]
    thr,      \* [Runs -> [AdapterSet -> the adapter's worker thread]]
    whSent,   \* [Runs -> what transcribe_whisper handed to the backend]
    aa,       \* [Runs -> the requests and responses of transcribe_assemblyai]
    order,    \* [Runs -> the adapters in the order their threads finished]
    secrets,  \* [ConfigNames -> "set", "empty" or "absent"]: st.secrets
    main,     \* [Runs -> the run of main: position and local variables]
    ui,       \* [Runs -> the messages main has put on the page]
    s3,       \* the objects uploaded to the bucket
    db        \* the rows of the transcripts table, in insertion order

vars == <<missing, files, opc, got, thr, whSent, aa, order,
          secrets, main, ui, s3, db>>

\* the state of main and of its collaborators, which the adapters and
\* transcribe_all_in_parallel leave alone
mainVars == <<secrets, main, ui, s3, db>>

\* a worker thread: where it is, and once it has finished what it returned
\* and through which return statement (exit)
Thread(pc) == [pc |-> pc, val |-> <<>>, exit |-> "none"]
Returned(val, exit) == [pc |-> "returned", val |-> val, exit |-> exit]
\* the function was left by an exception: there is no returned value
Raised(exit) == [pc |-> "raised", val |-> <<>>, exit |-> exit]

Finished(t) == t.pc \in {"returned", "raised"}

NotSent == [sent |-> FALSE, data |-> <<>>]
Sent(bytes) == [sent |-> TRUE, data |-> bytes]

NoPoll == [kind |-> "none", status |-> "none", text |-> <<>>, error |-> <<>>]
AaFresh ==
    [upload |-> NotSent, nUpload |-> 0, nSubmit |-> 0, nPoll |-> 0,
     nWait |-> 0, upResp |-> "none", subResp |-> "none", poll |-> NoPoll]

\* one call of transcribe_all_in_parallel, made by run 1; run 2 makes none
Callers == {1}

\* main before the script has run: nothing chosen, nothing built
NoRecord ==
    [dept |-> "none", audio_url |-> <<>>, deepgram_text |-> <<>>,
     whisper_text |-> <<>>, assemblyai_text |-> <<>>, chosen_engine |-> "none"]
MainFresh(pc) ==
    [pc |-> pc, dept |-> "none", url |-> <<>>, tabs |-> <<>>, choice |-> "none",
     record |-> NoRecord, nInsert |-> 0, inserted |-> FALSE]

\* the module constants of lines 26-28 that are empty or could not be read
MissingOf(sec) == {a \in AdapterSet : sec[KeyOf[a]] # "set"}

Init ==
    /\ secrets \in [ConfigNames -> SecretStates]
    /\ missing = MissingOf(secrets)
    /\ main = [r \in Runs |-> MainFresh(IF r \in Callers THEN "import" ELSE "off")]
    /\ ui = [r \in Runs |-> {}]
    /\ s3 = {}
    /\ db = <<>>
    /\ files = [n \in FileNames |-> NoFile]
    /\ opc = [r \in Runs |-> [at |-> IF r \in Callers THEN "idle" ELSE "off", i |-> 0]]
    /\ got = [r \in Runs |-> <<>>]
    /\ thr = [r \in Runs |-> [a \in AdapterSet |-> Thread("unsubmitted")]]
    /\ whSent = [r \in Runs |-> NotSent]
    /\ aa = [r \in Runs |-> AaFresh]
    /\ order = [r \in Runs |-> <<>>]

\* the same adapter invoked by every run at once, as the worker threads of
\* concurrent calls of transcribe_all_in_parallel invoke it (calls that main
\* makes only with every API key configured)
InitConc ==
    /\ secrets = [n \in ConfigNames |-> "set"]
    /\ missing = {}
    /\ main = [r \in Runs |-> MainFresh("off")]
    /\ ui = [r \in Runs |-> {}]
    /\ s3 = {}
    /\ db = <<>>
    /\ files = [n \in FileNames |-> NoFile]
    /\ opc = [r \in Runs |-> [at |-> "off", i |-> 0]]
    /\ got = [r \in Runs |-> <<>>]
    /\ \E a \in AdapterSet :
           thr = [r \in Runs |-> [b \in AdapterSet |->
                     IF b = a THEN Thread("start") ELSE Thread("unsubmitted")]]
    /\ whSent = [r \in Runs |-> NotSent]
    /\ aa = [r \in Runs |-> AaFresh]
    /\ order = [r \in Runs |-> <<>>]

SetThread(r, a, t) ==
    /\ thr' = [thr EXCEPT ![r][a] = t]
    /\ order' = IF Finished(t) THEN [order EXCEPT ![r] = Append(@, a)] ELSE order

\* ------------------------------------------------------------------ responses
\* what a backend can answer; text is the transcript field when there is one
Resp(kind, text) == [kind |-> kind, text |-> text]

\* requests.post raises / raise_for_status raises / the JSON lacks the path
FailureKinds == {"transport", "http", "malformed"}
Failures == {Resp(k, <<>>) : k \in FailureKinds}

DeepgramResponses == Failures \cup {Resp("ok", t) : t \in Texts}

\* "ok_notext": a response dict without the "text" key
WhisperResponses ==
    Failures \cup {Resp("ok", t) : t \in Texts} \cup {Resp("ok_notext", <<>>)}

\* "no_field": a JSON object without "upload_url";
\* "not_object": a JSON body with no membership test (null, a number)
UploadResponses == {"transport", "http", "malformed", "no_field", "not_object", "ok"}

\* "malformed": the JSON is no object or lacks "id"
SubmitResponses == {"transport", "http", "malformed", "ok"}

\* status values that are neither "completed" nor "error", one of them a
\* value the code never names
OtherStatuses == {"queued", "processing", "throttled"}

PollResp(kind, status, text, error) ==
    [kind |-> kind, status |-> status, text |-> text, error |-> error]

\* "no_text": status completed and no usable "text" (absent or null);
\* an "error" response may or may not carry the "error" message
PollResponses ==
    {PollResp(k, "none", <<>>, <<>>) : k \in FailureKinds}
    \cup {PollResp("ok", s, <<>>, <<>>) : s \in OtherStatuses}
    \cup {PollResp("ok", "completed", t, <<>>) : t \in Texts}
    \cup {PollResp("no_text", "completed", <<>>, <<>>)}
    \cup {PollResp("ok", "error", <<>>, m) : m \in ErrorMsgs \cup {<<>>}}

\* ------------------------------------------------------------------ transcribe_deepgram
\* lines 98-107: the try block and its except clause
DeepgramReturn(resp) ==
    IF resp.kind = "ok"
    THEN Returned(Strip(resp.text), "ok")
    ELSE Returned(<<>>, "except")

\* the whole call: one request, no shared state
DgRun(r) ==
    /\ thr[r]["Deepgram"].pc = "start"
    /\ IF "Deepgram" \in missing
       THEN SetThread(r, "Deepgram", Returned(MissingDeepgramKey, "nokey"))
       ELSE \E resp \in DeepgramResponses :
                SetThread(r, "Deepgram", DeepgramReturn(resp))
    /\ UNCHANGED <<mainVars, missing, files, opc, got, whSent, aa>>

\* ------------------------------------------------------------------ transcribe_whisper
\* lines 139-145: response.get("text", "").strip(), or the except clause
WhisperReturn(resp) ==
    CASE resp.kind = "ok" -> Returned(Strip(resp.text), "ok")
      [] resp.kind = "ok_notext" -> Returned(Strip(<<>>), "ok")
      [] OTHER -> Returned(<<>>, "except")

\* lines 114-123: the key check, then open(temp_file, "wb"), which creates or
\* truncates the file, or raises OSError inside the try block
WhOpen(r) ==
    /\ thr[r]["Whisper"].pc = "start"
    /\ IF "Whisper" \in missing
       THEN /\ SetThread(r, "Whisper", Returned(MissingOpenAIKey, "nokey"))
            /\ UNCHANGED files
       ELSE \/ /\ files' = [files EXCEPT ![WhisperTemp] = Truncated]
               /\ SetThread(r, "Whisper", Thread("opened"))
            \/ /\ SetThread(r, "Whisper", Returned(<<>>, "open_except"))
               /\ UNCHANGED files
    /\ UNCHANGED <<mainVars, missing, opc, got, whSent, aa>>

\* line 124 and the end of the with block: write the audio and close
WhWrite(r) ==
    /\ thr[r]["Whisper"].pc = "opened"
    /\ files' = [files EXCEPT ![WhisperTemp] = WriteAt0(@, AudioOf[r])]
    /\ SetThread(r, "Whisper", Thread("written"))
    /\ UNCHANGED <<mainVars, missing, opc, got, whSent, aa>>

\* the bytes transcribe_whisper reads back (line 131) to hand to the backend
WhisperReadBack(r) == files[WhisperTemp].data

\* lines 127-145: getsize (the file exists, nothing ever removes it), open the
\* file for reading, hand its content to the backend, return
WhTranscribe(r) ==
    /\ thr[r]["Whisper"].pc = "written"
    /\ whSent' = [whSent EXCEPT ![r] = Sent(WhisperReadBack(r))]
    /\ \E resp \in WhisperResponses :
           SetThread(r, "Whisper", WhisperReturn(resp))
    /\ UNCHANGED <<mainVars, missing, files, opc, got, aa>>

\* ------------------------------------------------------------------ transcribe_assemblyai
\* lines 155-161: the key check, then open(temp_file, "wb") before the first
\* try block: an OSError here leaves the function as an exception
AaOpen(r) ==
    /\ thr[r]["AssemblyAI"].pc = "start"
    /\ IF "AssemblyAI" \in missing
       THEN /\ SetThread(r, "AssemblyAI", Returned(MissingAssemblyAIKey, "nokey"))
            /\ UNCHANGED files
       ELSE \/ /\ files' = [files EXCEPT ![AssemblyTemp] = Truncated]
               /\ SetThread(r, "AssemblyAI", Thread("opened"))
            \/ /\ SetThread(r, "AssemblyAI", Raised("open_raise"))
               /\ UNCHANGED files
    /\ UNCHANGED <<mainVars, missing, opc, got, whSent, aa>>

\* line 161 and the end of the with block: write the audio and close
AaWrite(r) ==
    /\ thr[r]["AssemblyAI"].pc = "opened"
    /\ files' = [files EXCEPT ![AssemblyTemp] = WriteAt0(@, AudioOf[r])]
    /\ SetThread(r, "AssemblyAI", Thread("written"))
    /\ UNCHANGED <<mainVars, missing, opc, got, whSent, aa>>

\* as UploadOutcome, without the test of line 176
UploadOutcomeUnchecked(kind) ==
    CASE kind \in FailureKinds -> Returned(<<>>, "upload_except")
      [] kind = "not_object" -> Raised("upload_raise")
      [] OTHER -> Thread("uploaded")

\* lines 168-179: what follows the upload response
UploadOutcome(kind) ==
    CASE kind \in FailureKinds -> Returned(<<>>, "upload_except")
      [] kind = "no_field" -> Returned(UploadInvalid, "upload_invalid")
      [] kind = "not_object" -> Raised("upload_raise")
      [] OTHER -> Thread("uploaded")

\* lines 164-179: read the file back and POST its content to /v2/upload
AaUpload(r) ==
    /\ thr[r]["AssemblyAI"].pc = "written"
    /\ \E kind \in UploadResponses :
        /\ aa' = [aa EXCEPT ![r].upload = Sent(files[AssemblyTemp].data),
                            ![r].nUpload = @ + 1,
                            ![r].upResp = kind]
        /\ SetThread(r, "AssemblyAI", UploadOutcome(kind))
    /\ UNCHANGED <<mainVars, missing, files, opc, got, whSent>>

\* lines 189-194: what follows the job-creation response
SubmitOutcome(kind) ==
    IF kind \in FailureKinds
    THEN Returned(<<>>, "submit_except")
    ELSE Thread("polling")

\* lines 183-197: POST the locator to /v2/transcript
AaSubmit(r) ==
    /\ thr[r]["AssemblyAI"].pc = "uploaded"
    /\ \E kind \in SubmitResponses :
        /\ aa' = [aa EXCEPT ![r].nSubmit = @ + 1, ![r].subResp = kind]
        /\ SetThread(r, "AssemblyAI", SubmitOutcome(kind))
    /\ UNCHANGED <<mainVars, missing, files, opc, got, whSent>>

\* a successful poll response whose status is neither completed nor error
NonTerminal(resp) ==
    resp.kind = "ok" /\ resp.status \notin {"completed", "error"}

\* as PollOutcome, giving up on a status value the code does not know
PollOutcomeGiveUp(resp) ==
    CASE resp.kind \in FailureKinds -> Returned(<<>>, "poll_except")
      [] resp.status = "completed" /\ resp.kind = "no_text" ->
            Returned(<<>>, "poll_except")
      [] resp.status = "completed" -> Returned(Strip(resp.text), "ok")
      [] resp.status = "error" -> Returned(<<>>, "status_error")
      [] resp.status = "throttled" -> Returned(<<>>, "poll_except")
      [] OTHER -> Thread("polling")

\* as PollOutcome, with a poll that could not be sent tried again
PollOutcomeRetry(resp) ==
    CASE resp.kind = "transport" -> Thread("polling")
      [] resp.kind \in FailureKinds -> Returned(<<>>, "poll_except")
      [] resp.status = "completed" /\ resp.kind = "no_text" ->
            Returned(<<>>, "poll_except")
      [] resp.status = "completed" -> Returned(Strip(resp.text), "ok")
      [] resp.status = "error" -> Returned(<<>>, "status_error")
      [] OTHER -> Thread("polling")

\* as PollOutcome, taking any status but "queued" for the end of the job
PollOutcomeLax(resp) ==
    CASE resp.kind \in FailureKinds -> Returned(<<>>, "poll_except")
      [] resp.status = "error" -> Returned(<<>>, "status_error")
      [] resp.status = "queued" -> Thread("polling")
      [] resp.kind = "no_text" -> Returned(<<>>, "poll_except")
      [] OTHER -> Returned(Strip(resp.text), "ok")

\* lines 201-216: what follows a poll response
PollOutcome(resp) ==
    CASE resp.kind \in FailureKinds -> Returned(<<>>, "poll_except")
      [] resp.status = "completed" /\ resp.kind = "no_text" ->
            Returned(<<>>, "poll_except")
      [] resp.status = "completed" -> Returned(Strip(resp.text), "ok")
      [] resp.status = "error" -> Returned(<<>>, "status_error")
      [] OTHER -> Thread("polling")

\* lines 198-216: one turn of the while True loop: GET the job's status
AaPoll(r) ==
    /\ thr[r]["AssemblyAI"].pc = "polling"
    /\ aa[r].nPoll < MaxPolls
    /\ \E resp \in PollResponses :
        /\ aa' = [aa EXCEPT ![r].nPoll = @ + 1,
                            ![r].nWait = IF NonTerminal(resp) THEN @ + 1 ELSE @,
                            ![r].poll = resp]
        /\ SetThread(r, "AssemblyAI", PollOutcome(resp))
    /\ UNCHANGED <<mainVars, missing, files, opc, got, whSent>>

\* ------------------------------------------------------------------ transcribe_all_in_parallel
\* main, lines 322-332: with an API key missing main returns before it gets
\* to its call of transcribe_all_in_parallel (line 383)
KeysConfigured == missing = {}

\* line 383, then line 222: the call enters the with block, the executor exists
Call(r) ==
    /\ opc[r].at = "idle"
    /\ main[r].pc = "transcribe"
    /\ KeysConfigured
    /\ opc' = [opc EXCEPT ![r] = [at |-> "submit", i |-> 1]]
    /\ UNCHANGED <<mainVars, missing, files, got, thr, whSent, aa, order>>

\* lines 223-225: executor.submit starts the i-th adapter on a worker thread
Submit(r) ==
    /\ opc[r].at = "submit"
    /\ SetThread(r, Adapters[opc[r].i], Thread("start"))
    /\ opc' = [opc EXCEPT ![r] = IF opc[r].i < Len(Adapters)
                                 THEN [at |-> "submit", i |-> opc[r].i + 1]
                                 ELSE [at |-> "result", i |-> 1]]
    /\ UNCHANGED <<mainVars, missing, files, got, whSent, aa>>

\* as FutureDone, for a result() that does not wait
ResultNoWait(r, a) == thr[r][a].pc # "unsubmitted"

\* Future.result() blocks until the worker has returned or raised
FutureDone(r, a) == Finished(thr[r][a])

\* as FutureAt, every text taken from the first future
FutureAtFirst(i) == Adapters[1]

\* the future whose result the i-th call of result() takes (lines 227-229)
FutureAt(i) == Adapters[i]

\* lines 227-229: take the i-th future's result; an adapter's exception is
\* raised again here and leaves the with block
Result(r) ==
    /\ opc[r].at = "result"
    /\ FutureDone(r, FutureAt(opc[r].i))
    /\ LET t == thr[r][FutureAt(opc[r].i)] IN
        IF t.pc = "raised"
        THEN /\ opc' = [opc EXCEPT ![r] = [at |-> "exit_raise", i |-> opc[r].i]]
             /\ UNCHANGED got
        ELSE /\ got' = [got EXCEPT ![r] = Append(@, t.val)]
             /\ opc' = [opc EXCEPT ![r] = IF opc[r].i < Len(Adapters)
                                          THEN [at |-> "result", i |-> opc[r].i + 1]
                                          ELSE [at |-> "exit_return", i |-> opc[r].i]]
    /\ UNCHANGED <<mainVars, missing, files, thr, whSent, aa, order>>

\* the end of the with block (line 229 to 231): ThreadPoolExecutor.__exit__
\* is shutdown(wait=True), it joins every worker; then the call returns the
\* tuple (line 231) or lets the exception go on to its caller
ShutdownJoined(r) == \A a \in AdapterSet : Finished(thr[r][a])

Exit(r) ==
    /\ opc[r].at \in {"exit_return", "exit_raise"}
    /\ ShutdownJoined(r)
    /\ opc' = [opc EXCEPT ![r].at = IF @ = "exit_return" THEN "returned" ELSE "raised"]
    /\ UNCHANGED <<mainVars, missing, files, got, thr, whSent, aa, order>>

\* ------------------------------------------------------------------ main
adapterVars == <<missing, files, opc, got, thr, whSent, aa, order>>

SetMain(r, m) == main' = [main EXCEPT ![r] = m]
Show(r, msg) == ui' = [ui EXCEPT ![r] = @ \cup {msg}]

\* lines 26-33, at import: st.secrets["X"] raises KeyError for an absent key
\* and the script ends there, the runtime showing the exception
Import(r) ==
    /\ main[r].pc = "import"
    /\ IF \E n \in ConfigNames : secrets[n] = "absent"
       THEN /\ SetMain(r, [main[r] EXCEPT !.pc = "crashed"])
            /\ Show(r, MsgKeyError)
       ELSE /\ SetMain(r, [main[r] EXCEPT !.pc = "checks"])
            /\ UNCHANGED ui
    /\ UNCHANGED <<adapterVars, secrets, s3, db>>

\* as ConfigMessage, without the test of DATABASE_URL
ConfigMessageNoDb ==
    CASE missing # {} -> MsgMissingKeys
      [] \E n \in {"AWS_ACCESS_KEY_ID", "AWS_SECRET_ACCESS_KEY", "AWS_S3_BUCKET_NAME"} :
            secrets[n] # "set" -> MsgMissingAws
      [] OTHER -> "none"

\* lines 322-340: the first of the three checks that fails, if any
ConfigMessage ==
    CASE missing # {} -> MsgMissingKeys
      [] secrets["DATABASE_URL"] # "set" -> MsgMissingDb
      [] \E n \in {"AWS_ACCESS_KEY_ID", "AWS_SECRET_ACCESS_KEY", "AWS_S3_BUCKET_NAME"} :
            secrets[n] # "set" -> MsgMissingAws
      [] OTHER -> "none"

\* lines 321-340: report the failed check and return, or go on
ConfigCheck(r) ==
    /\ main[r].pc = "checks"
    /\ IF ConfigMessage = "none"
       THEN /\ SetMain(r, [main[r] EXCEPT !.pc = "widgets"])
            /\ UNCHANGED ui
       ELSE /\ SetMain(r, [main[r] EXCEPT !.pc = "returned"])
            /\ Show(r, ConfigMessage)
    /\ UNCHANGED <<adapterVars, secrets, s3, db>>

\* lines 342-373: the department select box and the recorder; without audio
\* the script ends
Widgets(r) ==
    /\ main[r].pc = "widgets"
    /\ \E d \in Departments :
        \/ /\ SetMain(r, [main[r] EXCEPT !.dept = d, !.pc = "s3"])
           /\ UNCHANGED ui
        \/ /\ SetMain(r, [main[r] EXCEPT !.dept = d, !.pc = "returned"])
           /\ Show(r, MsgNoAudio)
    /\ UNCHANGED <<adapterVars, secrets, s3, db>>

\* as AfterS3, going on after a failed upload
AfterS3Ignored(ok) == "transcribe"

\* lines 375-380: where main goes after upload_audio_to_s3 returned or raised
AfterS3(ok) == IF ok THEN "transcribe" ELSE "returned"

\* lines 374-380 and upload_audio_to_s3 (63-82): store the audio under a new
\* key and keep its URL, or show the error
S3Upload(r) ==
    /\ main[r].pc = "s3"
    /\ \/ \E u \in Uuids :
            /\ \A o \in s3 : o.key # ObjectKey(u)
            /\ s3' = s3 \cup {[key |-> ObjectKey(u), data |-> AudioOf[r]]}
            /\ SetMain(r, [main[r] EXCEPT !.url = AudioUrl(u), !.pc = AfterS3(TRUE)])
            /\ UNCHANGED ui
       \/ /\ SetMain(r, [main[r] EXCEPT !.pc = AfterS3(FALSE)])
          /\ Show(r, MsgS3Error)
          /\ UNCHANGED s3
    /\ UNCHANGED <<adapterVars, secrets, db>>

\* lines 391-395: what a tab shows for a text
Display(t) == IF t # <<>> THEN t ELSE NoTranscript

\* line 383 onwards, once transcribe_all_in_parallel is over: its exception
\* ends the script; otherwise lines 385-404 show the three texts and read the
\* radio button
AfterCall(r) ==
    /\ main[r].pc = "transcribe"
    /\ opc[r].at \in {"returned", "raised"}
    /\ IF opc[r].at = "raised"
       THEN /\ SetMain(r, [main[r] EXCEPT !.pc = "crashed"])
            /\ Show(r, MsgException)
       ELSE /\ \E c \in AdapterSet :
                SetMain(r, [main[r] EXCEPT
                                !.tabs = [i \in 1..Len(got[r]) |-> Display(got[r][i])],
                                !.choice = c,
                                !.pc = "button"])
            /\ Show(r, MsgCompleted)
    /\ UNCHANGED <<adapterVars, secrets, s3, db>>

\* line 408: not (a.strip() or b.strip() or c.strip())
AllEmpty(texts) == \A i \in 1..Len(texts) : Strip(texts[i]) = <<>>

\* as SelectionRecord, two of the texts in each other's column
SelectionRecordSwapped(r) ==
    [dept |-> main[r].dept, audio_url |-> main[r].url,
     deepgram_text |-> got[r][2], whisper_text |-> got[r][1],
     assemblyai_text |-> got[r][3], chosen_engine |-> main[r].choice]

\* lines 411-418: the arguments of save_transcripts_to_postgres
SelectionRecord(r) ==
    [dept |-> main[r].dept, audio_url |-> main[r].url,
     deepgram_text |-> got[r][1], whisper_text |-> got[r][2],
     assemblyai_text |-> got[r][3], chosen_engine |-> main[r].choice]

\* lines 407-418: the Save button; not pressed, the script ends; pressed with
\* three empty texts, the warning; otherwise the call of the save function
SaveButton(r) ==
    /\ main[r].pc = "button"
    /\ \/ /\ SetMain(r, [main[r] EXCEPT !.pc = "returned"])
          /\ UNCHANGED ui
       \/ IF AllEmpty(got[r])
          THEN /\ SetMain(r, [main[r] EXCEPT !.pc = "returned"])
               /\ Show(r, MsgAllEmpty)
          ELSE /\ SetMain(r, [main[r] EXCEPT !.record = SelectionRecord(r),
                                             !.pc = "saving"])
               /\ UNCHANGED ui
    /\ UNCHANGED <<adapterVars, secrets, s3, db>>

\* save_transcripts_to_postgres (236-275), then line 419: the row is inserted
\* and committed, or connect, execute or commit raises, which the function
\* catches and shows; main then shows its success message
SavePostgres(r) ==
    /\ main[r].pc = "saving"
    /\ \/ /\ db' = Append(db, main[r].record)
          /\ SetMain(r, [main[r] EXCEPT !.nInsert = @ + 1, !.inserted = TRUE,
                                        !.pc = "returned"])
          /\ Show(r, MsgSaved)
       \/ /\ UNCHANGED db
          /\ SetMain(r, [main[r] EXCEPT !.nInsert = @ + 1, !.pc = "returned"])
          /\ ui' = [ui EXCEPT ![r] = @ \cup {MsgPgError, MsgSaved}]
    /\ UNCHANGED <<adapterVars, secrets, s3>>

\* ------------------------------------------------------------------ specification
Next ==
    \E r \in Runs :
        \/ Import(r)
        \/ ConfigCheck(r)
        \/ Widgets(r)
        \/ S3Upload(r)
        \/ AfterCall(r)
        \/ SaveButton(r)
        \/ SavePostgres(r)
        \/ Call(r)
        \/ Submit(r)
        \/ Result(r)
        \/ Exit(r)
        \/ DgRun(r)
        \/ WhOpen(r)
        \/ WhWrite(r)
        \/ WhTranscribe(r)
        \/ AaOpen(r)
        \/ AaWrite(r)
        \/ AaUpload(r)
        \/ AaSubmit(r)
        \/ AaPoll(r)

Spec == Init /\ [][Next]_vars

\* the same, with a scheduler that lets some thread that can run do so
SpecFair == Spec /\ WF_vars(Next)

\* the adapters' steps alone, for concurrent invocations
NextConc ==
    \E r \in Runs :
        \/ DgRun(r)
        \/ WhOpen(r)
        \/ WhWrite(r)
        \/ WhTranscribe(r)
        \/ AaOpen(r)
        \/ AaWrite(r)
        \/ AaUpload(r)
        \/ AaSubmit(r)
        \/ AaPoll(r)

SpecConc == InitConc /\ [][NextConc]_vars

\* ------------------------------------------------------------------ vocabulary of the properties
AA(r) == thr[r]["AssemblyAI"]

CallOver(r) == opc[r].at \in {"returned", "raised"}

\* what the caller of transcribe_all_in_parallel holds once the call is over:
\* the tuple of line 231, or nothing when the call raised
Delivered(r) == IF opc[r].at = "returned" THEN got[r] ELSE <<>>

\* the adapter is between its first and its last statement
InProgress(t) == t.pc \in {"opened", "written", "uploaded", "polling"}

\* the invocation ended because a step of its backend exchange failed
FailedExit(t) ==
    t.exit \in {"except", "upload_except", "upload_invalid", "upload_raise",
                "submit_except", "poll_except", "status_error"}

Spaces(n) == [k \in 1..n |-> " "]

\* v is s without its leading and trailing whitespace
IsTrimOf(v, s) ==
    /\ v # <<>> => ~IsSpace(v[1]) /\ ~IsSpace(v[Len(v)])
    /\ \E i, j \in 0..Len(s) : s = Spaces(i) \o v \o Spaces(j)

\* m occurs in v as a contiguous part
Carries(v, m) ==
    \E i \in 0..Len(v) : i + Len(m) <= Len(v) /\ SubSeq(v, i + 1, i + Len(m)) = m

\* ------------------------------------------------------------------ C1
\* C1 (isolation): once a call of transcribe_all_in_parallel is over, the
\* outcome of every adapter that returned one has been delivered to the
\* caller at its position, whatever happened to the other adapters.
C1_Isolation ==
    \A r \in Runs : CallOver(r) =>
        \A i \in 1..Len(Adapters) :
            thr[r][Adapters[i]].pc = "returned" =>
                /\ Len(Delivered(r)) = Len(Adapters)
                /\ Delivered(r)[i] = thr[r][Adapters[i]].val

\* ------------------------------------------------------------------ C2
\* C2 (three outcomes, fixed order): whatever the backends answered and in
\* whatever order the workers finished, a call of transcribe_all_in_parallel
\* that is over has returned exactly three texts, the i-th being the one the
\* i-th adapter (Deepgram, Whisper, AssemblyAI) produced.
C2_ThreeInOrder ==
    \A r \in Runs : CallOver(r) =>
        /\ opc[r].at = "returned"
        /\ Len(got[r]) = 3
        /\ \A i \in 1..3 :
            /\ thr[r][Adapters[i]].pc = "returned"
            /\ got[r][i] = thr[r][Adapters[i]].val

\* ------------------------------------------------------------------ C3
\* C3 (no cross-contamination): the bytes transcribe_whisper hands to the
\* backend in a run are that run's own audio.
C3_WhisperOwnAudio ==
    \A r \in Runs : whSent[r].sent => whSent[r].data = AudioOf[r]

\* ------------------------------------------------------------------ C4
\* C4 (guaranteed cleanup): when no adapter invocation is in progress, no
\* adapter temporary file exists.
C4_NoTempFileLeft ==
    (\A r \in Runs : \A a \in AdapterSet : ~InProgress(thr[r][a]))
        => \A n \in FileNames : ~files[n].exists

\* ------------------------------------------------------------------ C5
\* C5 (join): from the moment the last result() has come back, or one has
\* raised, every adapter of the call has finished, so the call never returns
\* or raises while an adapter is running; and a step in which one adapter
\* finishes leaves the other adapters' threads as they were.
C5_JoinState ==
    \A r \in Runs :
        opc[r].at \in {"exit_return", "exit_raise", "returned", "raised"} =>
            \A a \in AdapterSet : thr[r][a].pc \in {"returned", "raised"}

C5_NoCancel ==
    \A r \in Runs : \A a \in AdapterSet :
        (thr[r][a].pc \notin {"returned", "raised"}
            /\ thr'[r][a].pc \in {"returned", "raised"})
        => \A q \in Runs : \A b \in AdapterSet :
               (q # r \/ b # a) => thr'[q][b] = thr[q][b]

\* C5 (join): the call is over only once every adapter has finished, and no
\* adapter's finish touches another adapter's thread.
C5_Join == []C5_JoinState /\ [][C5_NoCancel]_vars

\* the call raised after its first two adapters had long returned
C5_Witness ==
    \E r \in Runs :
        /\ opc[r].at = "raised"
        /\ order[r] = <<"Whisper", "Deepgram", "AssemblyAI">>
        /\ AA(r).exit = "upload_raise"

\* ------------------------------------------------------------------ C6
\* C6 (polling termination): the adapter is still polling exactly when
\* every response so far was a non-terminal one; it returns a transcript
\* only on a response with status completed, after as many polls as there
\* were non-terminal responses plus one, and what it returns is that
\* response's text without its leading and trailing whitespace.
C6_PollTermination ==
    \A r \in Runs :
        /\ AA(r).pc = "polling" => aa[r].nPoll = aa[r].nWait
        /\ (AA(r).pc = "returned" /\ aa[r].nPoll > 0) =>
            /\ ~NonTerminal(aa[r].poll)
            /\ aa[r].nPoll = aa[r].nWait + 1
        /\ (aa[r].poll.kind = "ok" /\ aa[r].poll.status = "completed") =>
            /\ AA(r).pc = "returned"
            /\ IsTrimOf(AA(r).val, aa[r].poll.text)

\* queued, processing, completed with text " a": three polls, returns "a"
C6_Witness ==
    \E r \in Runs :
        /\ AA(r).pc = "returned"
        /\ aa[r].nPoll = 3 /\ aa[r].nWait = 2
        /\ aa[r].poll.status = "completed"
        /\ aa[r].poll.text = <<" ", "a">>
        /\ AA(r).val = <<"a">>

\* ------------------------------------------------------------------ C7
\* C7 (error status): after a poll response with status error and an
\* upstream message, the adapter has returned an outcome that carries that
\* message.
C7_ErrorCarriesMessage ==
    \A r \in Runs :
        (aa[r].poll.status = "error" /\ aa[r].poll.error # <<>>) =>
            /\ AA(r).pc = "returned"
            /\ Carries(AA(r).val, aa[r].poll.error)

\* ------------------------------------------------------------------ C8
\* C8 (failure distinguishable): two invocations of the same adapter, one
\* that failed and one that succeeded, never return the same value.
C8_FailureDistinguishable ==
    \A r, q \in Runs : \A a \in AdapterSet :
        (thr[r][a].pc = "returned" /\ thr[r][a].exit = "ok"
            /\ thr[q][a].pc = "returned" /\ FailedExit(thr[q][a]))
        => thr[r][a].val # thr[q][a].val

\* ------------------------------------------------------------------ C9
\* C9 (failures give empty text): an adapter invocation that ended on a
\* failed backend step returned, and returned the empty text.
C9_FailureEmptyText ==
    \A r \in Runs : \A a \in AdapterSet :
        (Finished(thr[r][a]) /\ FailedExit(thr[r][a])) =>
            /\ thr[r][a].pc = "returned"
            /\ thr[r][a].val = <<>>

\* ------------------------------------------------------------------ C10
\* C10 (protocol order): a job-creation request has been issued only if the
\* upload response held a locator, a poll request only if the job-creation
\* response held a job id; each of the two is issued at most once.
C10_ProtocolOrder ==
    \A r \in Runs :
        /\ aa[r].nUpload <= 1 /\ aa[r].nSubmit <= 1
        /\ aa[r].nSubmit > 0 => aa[r].nUpload = 1 /\ aa[r].upResp = "ok"
        /\ aa[r].nPoll > 0 => aa[r].nSubmit = 1 /\ aa[r].subResp = "ok"
        /\ aa[r].upResp \notin {"none", "ok"} =>
               aa[r].nSubmit = 0 /\ aa[r].nPoll = 0 /\ Finished(AA(r))
        /\ aa[r].subResp \notin {"none", "ok"} =>
               aa[r].nPoll = 0 /\ Finished(AA(r))

\* the adapter went through upload, job creation and two polls
C10_Witness ==
    \E r \in Runs :
        /\ aa[r].nUpload = 1 /\ aa[r].nSubmit = 1 /\ aa[r].nPoll = 2
        /\ aa[r].upResp = "ok" /\ aa[r].subResp = "ok"

\* ------------------------------------------------------------------ C11
\* C11 (a failed poll is terminal): once a poll request has failed (transport
\* error or non-success status), the adapter has returned the empty text, and
\* from then on it issues no request of any kind.
C11_FailedPollState ==
    \A r \in Runs :
        aa[r].poll.kind \in {"transport", "http"} =>
            /\ AA(r).pc = "returned"
            /\ AA(r).val = <<>>

C11_NoRequestAfter ==
    \A r \in Runs :
        aa[r].poll.kind \in {"transport", "http"} => aa'[r] = aa[r]

\* C11: both parts, in every state and every step
C11_PollFailureTerminal == []C11_FailedPollState /\ [][C11_NoRequestAfter]_vars

\* the second poll met a transport error and the adapter has returned
C11_Witness ==
    \E r \in Runs :
        /\ aa[r].poll.kind = "transport"
        /\ aa[r].nPoll = 2 /\ aa[r].nWait = 1
        /\ AA(r).pc = "returned"

\* ------------------------------------------------------------------ C17
\* C17 (own bytes uploaded): the bytes an invocation of transcribe_assemblyai
\* POSTs to the upload endpoint are the bytes it was called with.
C17_UploadOwnAudio ==
    \A r \in Runs : aa[r].upload.sent => aa[r].upload.data = AudioOf[r]

\* ------------------------------------------------------------------ C19
\* C19 (no retry, no fallback): a thread is started only from the unsubmitted
\* state and a finished thread is never touched again; once the call is over
\* each adapter has finished exactly once; and the text returned at each
\* position is that adapter's own, empty or not.
C19_OnceState ==
    \A r \in Runs :
        /\ CallOver(r) =>
            /\ Len(order[r]) = Len(Adapters)
            /\ {order[r][k] : k \in 1..Len(order[r])} = AdapterSet
        /\ opc[r].at = "returned" =>
            \A i \in 1..Len(Adapters) : got[r][i] = thr[r][Adapters[i]].val

C19_OnceStep ==
    \A r \in Runs : \A a \in AdapterSet :
        /\ (thr'[r][a].pc = "start" /\ thr[r][a].pc # "start")
               => thr[r][a].pc = "unsubmitted"
        /\ thr[r][a].pc # "unsubmitted" => thr'[r][a].pc # "unsubmitted"
        /\ thr[r][a].pc \in {"returned", "raised"} => thr'[r][a] = thr[r][a]

\* C19: both parts, in every state and every step
C19_NoRetryNoFallback == []C19_OnceState /\ [][C19_OnceStep]_vars

\* Deepgram and AssemblyAI failed, Whisper did not: the call returned the two
\* empty texts as they were
C19_Witness ==
    \E r \in Runs :
        /\ opc[r].at = "returned"
        /\ thr[r]["Deepgram"].exit = "except"
        /\ AA(r).exit = "status_error"
        /\ got[r] = <<<<>>, <<"a">>, <<>>>>

\* ------------------------------------------------------------------ C12
\* C12 (nothing saved without a transcript): main gets to the call of
\* save_transcripts_to_postgres only in a run where some backend completed a
\* transcription with a non-empty text.
C12_SaveNeedsTranscript ==
    \A r \in Runs :
        (main[r].pc = "saving" \/ main[r].nInsert > 0) =>
            \E a \in AdapterSet :
                thr[r][a].exit = "ok" /\ thr[r][a].val # <<>>

\* ------------------------------------------------------------------ C13
\* C13 (a failed write is surfaced): main shows the record as saved only if
\* the insert and the commit succeeded, and it calls the save function at
\* most once in a run.
C13_SavedOnlyIfInserted ==
    \A r \in Runs :
        /\ MsgSaved \in ui[r] => main[r].inserted
        /\ main[r].nInsert <= 1

\* ------------------------------------------------------------------ C14
\* C14 (configuration fail-fast): with a required configuration value absent
\* or empty nothing is ever uploaded to the bucket, no adapter is started, no
\* request is sent to a backend and no row is written; and once main is past
\* its checks it has ended with a configuration error on the page.
Deficient == \E n \in ConfigNames : secrets[n] # "set"

ConfigErrors == {MsgKeyError, MsgMissingKeys, MsgMissingDb, MsgMissingAws}

C14_ConfigFailFast ==
    Deficient =>
        /\ s3 = {}
        /\ db = <<>>
        /\ \A r \in Runs :
            /\ opc[r].at \in {"idle", "off"}
            /\ \A a \in AdapterSet : thr[r][a].pc = "unsubmitted"
            /\ aa[r].nUpload = 0 /\ aa[r].nSubmit = 0 /\ aa[r].nPoll = 0
            /\ ~whSent[r].sent
            /\ main[r].nInsert = 0
            /\ main[r].pc \in {"off", "import", "checks", "crashed", "returned"}
            /\ main[r].pc \in {"crashed", "returned"} => ui[r] \cap ConfigErrors # {}

\* only DATABASE_URL is empty: main has reported it and returned
C14_Witness ==
    \E r \in Runs :
        /\ secrets["DATABASE_URL"] = "empty"
        /\ \A n \in ConfigNames \ {"DATABASE_URL"} : secrets[n] = "set"
        /\ main[r].pc = "returned"
        /\ ui[r] = {MsgMissingDb}

\* ------------------------------------------------------------------ C15
\* C15 (a failed S3 upload aborts the attempt): in a run whose upload to the
\* bucket failed, main has returned, no adapter was ever started, no result
\* is shown and no row is written.
C15_S3FailureAborts ==
    \A r \in Runs :
        MsgS3Error \in ui[r] =>
            /\ main[r].pc = "returned"
            /\ opc[r].at = "idle"
            /\ \A a \in AdapterSet : thr[r][a].pc = "unsubmitted"
            /\ aa[r].nUpload = 0 /\ ~whSent[r].sent
            /\ MsgCompleted \notin ui[r] /\ main[r].tabs = <<>>
            /\ main[r].nInsert = 0 /\ main[r].record = NoRecord
            /\ db = <<>>

\* the upload failed after the department was chosen
C15_Witness ==
    \E r \in Runs :
        /\ ui[r] = {MsgS3Error}
        /\ main[r].dept = "Pulmonology"
        /\ s3 = {}

\* ------------------------------------------------------------------ C16
\* C16 (the record is the run's own data): the record handed to the save
\* function exists only after the texts were shown and the choice made, and
\* it holds the selected department, the URL of the object this run uploaded
\* with its own audio, the three texts the adapters of this run returned, in
\* the columns of Deepgram, Whisper and AssemblyAI, and the chosen backend;
\* the row inserted is that record.
C16_RecordExact ==
    \A r \in Runs :
        /\ (main[r].pc # "saving" /\ main[r].nInsert = 0) => main[r].record = NoRecord
        /\ (main[r].pc = "saving" \/ main[r].nInsert > 0) =>
            LET rec == main[r].record IN
            /\ MsgCompleted \in ui[r]
            /\ rec.dept = main[r].dept /\ rec.dept \in Departments
            /\ \E o \in s3 :
                /\ o.data = AudioOf[r]
                /\ rec.audio_url = <<"https://bucket.s3.amazonaws.com/">> \o o.key
            /\ rec.deepgram_text = thr[r]["Deepgram"].val
            /\ rec.whisper_text = thr[r]["Whisper"].val
            /\ rec.assemblyai_text = thr[r]["AssemblyAI"].val
            /\ rec.chosen_engine = main[r].choice
            /\ rec.chosen_engine \in AdapterSet
            /\ main[r].inserted => db = <<rec>>
            /\ ~main[r].inserted => db = <<>>

\* three different texts, the second engine chosen, the row inserted
C16_Witness ==
    \E r \in Runs :
        /\ main[r].inserted
        /\ Len(db) = 1
        /\ db[1].dept = "Cardiology"
        /\ db[1].deepgram_text = <<"a">>
        /\ db[1].whisper_text = <<"a", "a">>
        /\ db[1].assemblyai_text = <<>>
        /\ db[1].chosen_engine = "Whisper"

\* ------------------------------------------------------------------ C18
\* C18 (conditional termination): while every poll response so far is a
\* non-terminal one the adapter is still polling, whatever the number of
\* polls, and the call of transcribe_all_in_parallel is not over, main
\* waiting in it; the adapter has left the loop only on a response with
\* status completed or error or on a failed request.
C18_PollingBlocks ==
    \A r \in Runs :
        /\ (aa[r].nPoll > 0 /\ aa[r].nPoll = aa[r].nWait) => AA(r).pc = "polling"
        /\ AA(r).pc = "polling" =>
            /\ aa[r].nPoll = aa[r].nWait
            /\ opc[r].at \in {"submit", "result"}
            /\ main[r].pc \in {"transcribe", "off"}
        /\ (Finished(AA(r)) /\ aa[r].nPoll > 0) =>
            \/ aa[r].poll.kind # "ok"
            \/ aa[r].poll.status \in {"completed", "error"}

\* C18: and once the adapter has finished, the call comes to its end
C18_ConditionalTermination ==
    /\ []C18_PollingBlocks
    /\ \A r \in Callers : Finished(AA(r)) ~> CallOver(r)

\* the other two adapters have returned, the third result() is waiting for
\* an adapter that has had nothing but non-terminal answers
C18_Witness ==
    \E r \in Runs :
        /\ AA(r).pc = "polling"
        /\ aa[r].nWait = MaxPolls
        /\ thr[r]["Deepgram"].pc = "returned"
        /\ thr[r]["Whisper"].pc = "returned"
        /\ opc[r] = [at |-> "result", i |-> 3]

====
